---- MODULE Spec2Model ----
(***************************************************************************)
(* Wallet-signature authentication of AnonChat.                            *)
(*                                                                         *)
(*   lib/auth/stellar-verify.ts   nonce store, generateNonce, consumeNonce,*)
(*                                verifyWalletSignature                    *)
(*   lib/auth/validation.ts       validateStellarAddress, ...WithMessage   *)
(*   lib/auth/password.ts         deterministicPassword                    *)
(*   api/auth/nonce               POST: request a challenge                *)
(*   api/auth/wallet-login        POST: submit {walletAddress, signature}  *)
(*                                                                         *)
(* The repository holds two versions of the wallet-login handler: the one  *)
(* that validates through lib/auth/validation.ts (route "login") and the   *)
(* one with inline checks, stored behind the nonce route (route "inline"). *)
(* Both call the same consumeNonce / verifyWalletSignature; a deployment   *)
(* serves one of them (`version`).                                         *)
(*                                                                         *)
(* A handler runs synchronously between two awaits (JavaScript runs a      *)
(* callback to completion), so each action is one such run: no other       *)
(* handler starts before the running one awaits or answers.                *)
(***************************************************************************)
EXTENDS Integers, Sequences, FiniteSets, TLC

\* ---------------------------------------------------------------- bounds
MaxReq == 2
MaxIssue == 2
MaxDrift == 1
MaxEpoch == 1
MaxUuid == 2

\* ------------------------------------------------------- program constants
NONCE_TTL_MS == 5 * 60 * 1000
ADDRESS_LENGTH == 56

\* ------------------------------------------------------------- JS values
\* A string value is the text `s`, preceded by a run of hexadecimal digits
\* that spells the bytes `hex` (NoBytes when the text `s` is all there is;
\* `s` itself never starts with two hexadecimal digits).
Null == [t |-> "null"]
Undefined == [t |-> "undefined"]
NumberVal == [t |-> "number"]
NoData == [utf8 |-> "none"]
NoBytes == [n |-> 0, by |-> "", over |-> NoData]
Str(s) == [t |-> "string", hex |-> NoBytes, s |-> s]
HexStr(bytes) == [t |-> "string", hex |-> bytes, s |-> ""]

\* Two Stellar public keys with a known key pair (KeyB only signs: it is the
\* key of another wallet, never sent as walletAddress), one 56-character 'G'
\* string that is not a valid strkey, and malformed addresses.
KeyA == "GAAAAAAAAAAAAAAAAAAAAAAAAAAAAAAAAAAAAAAAAAAAAAAAAAAAAAAA"
KeyB == "GBBBBBBBBBBBBBBBBBBBBBBBBBBBBBBBBBBBBBBBBBBBBBBBBBBBBBBB"
KeyBad == "GaaaaaaaaaaaaaaaaaaaaaaaaaaaaaaaaaaaaaaaaaaaaaaaaaaaaaaA"
NoPrefix == "XAAAAAAAAAAAAAAAAAAAAAAAAAAAAAAAAAAAAAAAAAAAAAAAAAAAAAAA"
Short == "GABC123"
Empty == ""
Blank == "  "
NotHex == "not-valid-hex"

KeyPairs == {KeyA, KeyB}
AddressStrings == {KeyA, KeyBad, NoPrefix, Short}
WalletInputs == {Undefined, NumberVal} \cup {Str(s) : s \in AddressStrings}

\* The nonce text `anonchat:${ts}:${uuid}`.
NonceText(ts, uuid) == [prefix |-> "anonchat", ts |-> ts, uuid |-> uuid]

\* Buffer.from(message, "utf-8")
Utf8(message) == [utf8 |-> message]

\* keypair.sign(data): the 64 bytes of the Ed25519 signature of `data`
\* under the private key of `signer`.
SIGNATURE_BYTES == 64
Sign(signer, data) == [n |-> SIGNATURE_BYTES, by |-> signer, over |-> data]

VARIABLES
  nonces,      \* the nonce store: walletAddress -> [nonce, expiresAt]
  now,         \* Date.now()
  secret,      \* process.env.WALLET_AUTH_SECRET
  version,     \* which version of the wallet-login handler is deployed
  users,       \* identity provider: email -> password
  reqs,        \* the wallet-login requests in flight, per slot
  lastRun,     \* the wallet-login request the last step ran, as the step left it
  issued,      \* history: every challenge issued, in order
  burned,      \* history: keys whose challenge consume returned since their last issue
  nonceResp    \* the response of the nonce endpoint sent by the last step

vars == <<nonces, now, secret, version, users, reqs, lastRun, issued, burned, nonceResp>>

Slots == 1..MaxReq

\* ------------------------------------------------- lib/auth/validation.ts
\* !value
Falsy(v) == v.t \in {"undefined", "null"} \/ (v.t = "string" /\ v.hex.n = 0 /\ v.s = "")

\* value.length, in characters
Length(v) == 2 * v.hex.n + Len(v.s)

validateStellarAddress(address) ==
  IF address.t # "string" THEN FALSE
  ELSE Length(address) = ADDRESS_LENGTH /\ address.hex.n = 0 /\ SubSeq(address.s, 1, 1) = "G"

\* (mutant) a validation without the format check
validateWalletAddressWithMessage_noFormat(walletAddress) ==
  IF Falsy(walletAddress) \/ walletAddress.t # "string"
  THEN "walletAddress is required"
  ELSE "none"

validateWalletAddressWithMessage(walletAddress) ==
  IF Falsy(walletAddress) \/ walletAddress.t # "string" THEN "walletAddress is required"
  ELSE IF ~validateStellarAddress(walletAddress) THEN "Invalid Stellar wallet address"
  ELSE "none"

\* String.prototype.trim, on a text
RECURSIVE TrimStart(_)
TrimStart(s) == IF s # "" /\ Head(s) = " " THEN TrimStart(Tail(s)) ELSE s
RECURSIVE TrimEnd(_)
TrimEnd(s) ==
  IF s # "" /\ SubSeq(s, Len(s), Len(s)) = " " THEN TrimEnd(SubSeq(s, 1, Len(s) - 1)) ELSE s
Trim(v) == IF v.hex.n > 0 THEN [v EXCEPT !.s = TrimEnd(v.s)] ELSE Str(TrimEnd(TrimStart(v.s)))

\* wallet-login step 1, signature check
signatureMissing(signature) ==
  Falsy(signature) \/ signature.t # "string" \/ Trim(signature) = Str("")

\* wallet-login step 1 of the inline version
inlineWalletMissing(walletAddress) == Falsy(walletAddress) \/ walletAddress.t # "string"
inlineSignatureMissing(signature) == Falsy(signature) \/ signature.t # "string"

\* --------------------------------------------- lib/auth/stellar-verify.ts
NoEntry == [x \in {} |-> Null]

Has(store, key) == key \in DOMAIN store
MapSet(store, key, value) == [k \in DOMAIN store \cup {key} |-> IF k = key THEN value ELSE store[k]]
MapDelete(store, key) == [k \in DOMAIN store \ {key} |-> store[k]]

\* (mutant) an issue that leaves an outstanding challenge in place
generateNonce_keepsFirst(store, walletAddress, t1, t2, uuid) ==
  LET nonce == NonceText(t1, uuid)
  IN [ret |-> nonce,
      nonces |-> IF Has(store, walletAddress) THEN store
                 ELSE MapSet(store, walletAddress,
                             [nonce |-> nonce, expiresAt |-> t2 + NONCE_TTL_MS])]

\* (mutant) a nonce text without the clock reading
generateNonce_noTimestamp(store, walletAddress, t1, t2, uuid) ==
  LET nonce == NonceText(0, uuid)
  IN [ret |-> nonce,
      nonces |-> MapSet(store, walletAddress, [nonce |-> nonce, expiresAt |-> t2 + NONCE_TTL_MS])]

\* (mutant) a nonce text carrying the second clock reading
generateNonce_lateText(store, walletAddress, t1, t2, uuid) ==
  LET nonce == NonceText(t2, uuid)
  IN [ret |-> nonce,
      nonces |-> MapSet(store, walletAddress, [nonce |-> nonce, expiresAt |-> t2 + NONCE_TTL_MS])]

\* (mutant) expiresAt computed from the first clock reading
generateNonce_firstReading(store, walletAddress, t1, t2, uuid) ==
  LET nonce == NonceText(t1, uuid)
  IN [ret |-> nonce,
      nonces |-> MapSet(store, walletAddress, [nonce |-> nonce, expiresAt |-> t1 + NONCE_TTL_MS])]

\* generateNonce reads the clock twice: t1 for the text, t2 for expiresAt.
generateNonce(store, walletAddress, t1, t2, uuid) ==
  LET nonce == NonceText(t1, uuid)
  IN [ret |-> nonce,
      nonces |-> MapSet(store, walletAddress, [nonce |-> nonce, expiresAt |-> t2 + NONCE_TTL_MS])]

\* (mutant) a consume that forgets nonces.delete
consumeNonce_keepsEntry(store, walletAddress, clock) ==
  IF ~Has(store, walletAddress) THEN [ret |-> Null, nonces |-> store]
  ELSE LET entry == store[walletAddress]
       IN IF clock > entry.expiresAt THEN [ret |-> Null, nonces |-> store]
          ELSE [ret |-> entry.nonce, nonces |-> store]

\* (mutant) a consume that rejects the nonce at expiresAt itself
consumeNonce_exclusive(store, walletAddress, clock) ==
  IF ~Has(store, walletAddress) THEN [ret |-> Null, nonces |-> store]
  ELSE LET entry == store[walletAddress]
           rest == MapDelete(store, walletAddress)
       IN IF clock >= entry.expiresAt THEN [ret |-> Null, nonces |-> rest]
          ELSE [ret |-> entry.nonce, nonces |-> rest]

\* (mutant) a consume that deletes only what it returns
consumeNonce_keepsExpired(store, walletAddress, clock) ==
  IF ~Has(store, walletAddress) THEN [ret |-> Null, nonces |-> store]
  ELSE LET entry == store[walletAddress]
       IN IF clock > entry.expiresAt THEN [ret |-> Null, nonces |-> store]
          ELSE [ret |-> entry.nonce, nonces |-> MapDelete(store, walletAddress)]

\* (mutant) a consume that falls back to the entry of another key
consumeNonce_anyKey(store, walletAddress, clock) ==
  LET key == IF Has(store, walletAddress) \/ DOMAIN store = {} THEN walletAddress
             ELSE CHOOSE k \in DOMAIN store : TRUE
  IN IF ~Has(store, key) THEN [ret |-> Null, nonces |-> store]
     ELSE LET entry == store[key]
              rest == MapDelete(store, key)
          IN IF clock > entry.expiresAt THEN [ret |-> Null, nonces |-> rest]
             ELSE [ret |-> entry.nonce, nonces |-> rest]

\* (mutant) a consume without the expiry check
consumeNonce_noExpiry(store, walletAddress, clock) ==
  IF ~Has(store, walletAddress) THEN [ret |-> Null, nonces |-> store]
  ELSE [ret |-> store[walletAddress].nonce, nonces |-> MapDelete(store, walletAddress)]

consumeNonce(store, walletAddress, clock) ==
  IF ~Has(store, walletAddress) THEN [ret |-> Null, nonces |-> store]
  ELSE LET entry == store[walletAddress]
           rest == MapDelete(store, walletAddress)
       IN IF clock > entry.expiresAt THEN [ret |-> Null, nonces |-> rest]
          ELSE [ret |-> entry.nonce, nonces |-> rest]

\* StellarSdk.Keypair.fromPublicKey throws unless the text is a valid strkey.
StrKeyValid(walletAddress) == walletAddress \in KeyPairs

\* Buffer.from(signature, "hex"): the bytes spelled by the leading hex
\* digits; the decoding stops at the first character that is not one.
HexDecode(signature) == signature.hex

\* keypair.verify(data, signature): nacl throws on a wrong signature size.
Ed25519Verify(publicKey, data, sigBytes) ==
  IF sigBytes.n # SIGNATURE_BYTES THEN "throw"
  ELSE IF sigBytes = Sign(publicKey, data) THEN "true" ELSE "false"

\* (mutant) a verification that checks the signer but not the message
verifyWalletSignature_anyMessage(walletAddress, message, signature) ==
  IF ~StrKeyValid(walletAddress) THEN FALSE
  ELSE HexDecode(signature).n = SIGNATURE_BYTES /\ HexDecode(signature).by = walletAddress

verifyWalletSignature(walletAddress, message, signature) ==
  IF ~StrKeyValid(walletAddress) THEN FALSE
  ELSE Ed25519Verify(walletAddress, Utf8(message), HexDecode(signature)) = "true"

\* ----------------------------------------------- lib/auth/password.ts
SecretValues == {Undefined, Str(Empty), Str("k")}
Thrown == [t |-> "throw"]

\* (mutant) a derivation without the check of the secret
deterministicPassword_noCheck(env, walletAddress) ==
  [t |-> "hex", hmac |-> <<env, walletAddress>>]

\* HMAC-SHA256(secret, walletAddress) as hex; throws without a secret.
deterministicPassword(env, walletAddress) ==
  IF Falsy(env) THEN Thrown ELSE [t |-> "hex", hmac |-> <<env.s, walletAddress>>]

LowerOf(c) ==
  CASE c = "G" -> "g" [] c = "A" -> "a" [] c = "B" -> "b" [] c = "C" -> "c" [] c = "X" -> "x"
    [] OTHER -> c
RECURSIVE ToLowerCase(_)
ToLowerCase(s) == IF s = "" THEN "" ELSE LowerOf(Head(s)) \o ToLowerCase(Tail(s))
\* (mutant) an e-mail built from the wallet address as presented
emailOf_verbatim(walletAddress) == walletAddress \o "@wallet.anonchat.local"

emailOf(walletAddress) == ToLowerCase(walletAddress) \o "@wallet.anonchat.local"

\* ------------------------------------------------------ identity provider
Session(email) == [t |-> "session", email |-> email]
\* signInWithPassword: a session, an error because the user does not exist, an
\* error (or no session) for another reason, or an exception
SignInOutcomes == {"session", "nouser", "rejected", "throw"}
SignUpOutcomes == {"session", "nosession", "error", "throw"}

\* ------------------------------------------------------------ responses
MsgNonce == "Nonce not found or expired. Request a new nonce."
MsgSignature == "Signature verification failed. Wallet ownership not proved."
MsgSignatureRequired == "signature is required"
MsgAuthFailed == "Authentication failed. Please try again."
MsgInternal == "Internal server error"

IdleReq ==
  [pc |-> "idle", walletAddress |-> Undefined, signature |-> Undefined,
   nonce |-> Null, password |-> Null, steps |-> <<>>, status |-> 0, error |-> "none",
   session |-> Null, isNewUser |-> FALSE, echo |-> Undefined]

Respond(q, status, error) == [q EXCEPT !.pc = "done", !.status = status, !.error = error]
Succeed(q, status, session, isNewUser) ==
  [q EXCEPT !.pc = "done", !.status = status, !.session = session, !.isNewUser = isNewUser,
            !.echo = q.walletAddress]
Did(q, step) == [q EXCEPT !.steps = Append(@, step)]

\* (mutant) a catch block answering with the authentication error
catchAll_authFailed(q) == Respond(q, 401, MsgAuthFailed)

\* (mutant) no catch block: the exception leaves the handler
catchAll_rethrows(q) == [q EXCEPT !.pc = "unhandled"]

\* the catch block around the whole handler
catchAll(q) == Respond(q, 500, MsgInternal)

\* --------------------------------------------------------------- inputs
Versions == {"login", "inline"}
\* The signatures a client can make: with the private key of any key pair,
\* over any challenge handed out so far.
KnownMessages == {issued[i].nonce : i \in 1..Len(issued)}
SignatureOf(k, m) == HexStr(Sign(k, Utf8(m)))
InvalidWallets == WalletInputs \ {Str(KeyA), Str(KeyBad)}
LoginInputs ==
  (InvalidWallets \X {Str(NotHex)})
    \cup ({Str(KeyA)} \X {Undefined, Str(Empty), Str(Blank)})
    \cup ({Str(KeyA), Str(KeyBad)} \X {Str(NotHex)})
    \cup ({Str(KeyA)} \X {SignatureOf(k, m) : k \in KeyPairs, m \in KnownMessages})
    \cup ({Str(KeyBad)} \X {SignatureOf(KeyA, m) : m \in KnownMessages})

NoResp == [status |-> 0, error |-> "none", nonce |-> Null]

\* ----------------------------------------------------------------- Init
Init ==
  /\ nonces = NoEntry
  /\ now = 0
  /\ secret \in SecretValues
  /\ version \in Versions
  /\ users = NoEntry
  /\ reqs = [r \in Slots |-> IdleReq]
  /\ lastRun = IdleReq
  /\ issued = <<>>
  /\ burned = {}
  /\ nonceResp = NoResp

\* ---------------------------------------------------------------- clock
Later(t) == {t} \cup (IF t % NONCE_TTL_MS < MaxDrift THEN {t + 1} ELSE {})

Tick(d) ==
  /\ d \in {1, NONCE_TTL_MS}
  /\ IF d = 1 THEN now % NONCE_TTL_MS < MaxDrift ELSE now \div NONCE_TTL_MS < MaxEpoch
  /\ now' = now + d
  /\ lastRun' = IdleReq /\ nonceResp' = NoResp
  /\ UNCHANGED <<nonces, secret, version, users, reqs, issued, burned>>

\* ------------------------------------------------- POST /api/auth/nonce
RequestNonce(walletAddress, t2) ==
  /\ t2 \in Later(now)
  /\ LET e == validateWalletAddressWithMessage(walletAddress)
     IN IF e # "none"
        THEN /\ nonceResp' = [status |-> 400, error |-> e, nonce |-> Null]
             /\ t2 = now
             /\ UNCHANGED <<nonces, now, issued, burned>>
        ELSE /\ Len(issued) < MaxIssue
             /\ LET g == generateNonce(nonces, walletAddress.s, now, t2, Len(issued) + 1)
                IN /\ nonces' = g.nonces
                   /\ nonceResp' = [status |-> 200, error |-> "none", nonce |-> g.ret]
                   /\ issued' = Append(issued,
                        [key |-> walletAddress.s, nonce |-> g.ret, returned |-> 0, ok |-> 0])
                   /\ burned' = burned \ {walletAddress.s}
             /\ now' = t2
  /\ lastRun' = IdleReq
  /\ UNCHANGED <<secret, version, users, reqs>>

\* ------------------------------------------ POST /api/auth/wallet-login
\* The handler up to its first await is one synchronous run: steps 1 to 3 and
\* the start of step 4. Each step takes the run [q, nonces] of the step before
\* it and does nothing once the request has answered (q.pc = "done").

\* step 1: input validation
validationError(route, walletAddress, signature) ==
  IF route = "login"
  THEN IF validateWalletAddressWithMessage(walletAddress) # "none"
       THEN validateWalletAddressWithMessage(walletAddress)
       ELSE IF signatureMissing(signature) THEN MsgSignatureRequired ELSE "none"
  ELSE IF inlineWalletMissing(walletAddress) THEN "walletAddress is required"
       ELSE IF inlineSignatureMissing(signature) THEN MsgSignatureRequired ELSE "none"

stepValidate(x) ==
  LET q == Did(x.q, "validate")
      e == validationError(x.version, q.walletAddress, q.signature)
  IN IF e # "none" THEN [x EXCEPT !.q = Respond(q, 400, e)]
     ELSE [x EXCEPT !.q = [q EXCEPT !.pc = "consume"]]

\* (mutant) step 2 without the return after a missing nonce
stepConsume_noReturn(x, clock) ==
  IF x.q.pc # "consume" THEN x
  ELSE LET q == Did(x.q, "consume")
           c == consumeNonce(x.nonces, q.walletAddress.s, clock)
       IN [x EXCEPT !.q = [q EXCEPT !.pc = "verify", !.nonce = c.ret], !.nonces = c.nonces]

\* (mutant) step 2 telling an expired nonce from a missing one
stepConsume_saysExpired(x, clock) ==
  IF x.q.pc # "consume" THEN x
  ELSE LET q == Did(x.q, "consume")
           c == consumeNonce(x.nonces, q.walletAddress.s, clock)
       IN IF c.ret = Null
          THEN IF Has(x.nonces, q.walletAddress.s)
               THEN [x EXCEPT !.q = Respond(q, 401, "Nonce expired. Request a new nonce."),
                              !.nonces = c.nonces]
               ELSE [x EXCEPT !.q = Respond(q, 401, MsgNonce), !.nonces = c.nonces]
          ELSE [x EXCEPT !.q = [q EXCEPT !.pc = "verify", !.nonce = c.ret], !.nonces = c.nonces]

\* step 2: consume the nonce
stepConsume(x, clock) ==
  IF x.q.pc # "consume" THEN x
  ELSE LET q == Did(x.q, "consume")
           c == consumeNonce(x.nonces, q.walletAddress.s, clock)
       IN IF c.ret = Null
          THEN [x EXCEPT !.q = Respond(q, 401, MsgNonce), !.nonces = c.nonces]
          ELSE [x EXCEPT !.q = [q EXCEPT !.pc = "verify", !.nonce = c.ret], !.nonces = c.nonces]

\* (mutant) step 3 putting the nonce back when the signature is wrong
stepVerify_restores(x) ==
  IF x.q.pc # "verify" THEN x
  ELSE LET q == Did(x.q, "verify")
       IN IF verifyWalletSignature(q.walletAddress.s, q.nonce, q.signature)
          THEN [x EXCEPT !.q = [q EXCEPT !.pc = "derive"]]
          ELSE [x EXCEPT !.q = Respond(q, 401, MsgSignature),
                         !.nonces = MapSet(x.nonces, q.walletAddress.s,
                                      [nonce |-> q.nonce, expiresAt |-> NONCE_TTL_MS])]

\* (mutant) step 3 with a verification that lets the library's exceptions out
stepVerify_uncaught(x) ==
  IF x.q.pc # "verify" THEN x
  ELSE LET q == Did(x.q, "verify")
       IN IF \/ ~StrKeyValid(q.walletAddress.s)
             \/ Ed25519Verify(q.walletAddress.s, Utf8(q.nonce), HexDecode(q.signature)) = "throw"
          THEN [x EXCEPT !.q = catchAll(q)]
          ELSE IF verifyWalletSignature(q.walletAddress.s, q.nonce, q.signature)
          THEN [x EXCEPT !.q = [q EXCEPT !.pc = "derive"]]
          ELSE [x EXCEPT !.q = Respond(q, 401, MsgSignature)]

\* step 3: verify the signature
stepVerify(x) ==
  IF x.q.pc # "verify" THEN x
  ELSE LET q == Did(x.q, "verify")
       IN IF verifyWalletSignature(q.walletAddress.s, q.nonce, q.signature)
          THEN [x EXCEPT !.q = [q EXCEPT !.pc = "derive"]]
          ELSE [x EXCEPT !.q = Respond(q, 401, MsgSignature)]

\* (mutant) step 4 deriving the password from the nonce instead of the wallet
stepDerive_perNonce(x, env) ==
  IF x.q.pc # "derive" THEN x
  ELSE LET q == Did(x.q, "derive")
           password == deterministicPassword(env, q.nonce)
       IN IF password = Thrown
          THEN [x EXCEPT !.q = Respond(q, 500, MsgInternal)]
          ELSE [x EXCEPT !.q = [q EXCEPT !.pc = "signIn", !.password = password]]

\* (mutant) step 4 answering with the message of the thrown error
stepDerive_leaksMessage(x, env) ==
  IF x.q.pc # "derive" THEN x
  ELSE LET q == Did(x.q, "derive")
           password == deterministicPassword(env, q.walletAddress.s)
       IN IF password = Thrown
          THEN [x EXCEPT !.q = Respond(q, 500,
                                  "WALLET_AUTH_SECRET environment variable is not set")]
          ELSE [x EXCEPT !.q = [q EXCEPT !.pc = "signIn", !.password = password]]

\* step 4, up to the await: derive the password
stepDerive(x, env) ==
  IF x.q.pc # "derive" THEN x
  ELSE LET q == Did(x.q, "derive")
           password == deterministicPassword(env, q.walletAddress.s)
       IN IF password = Thrown
          THEN [x EXCEPT !.q = catchAll(q)]
          ELSE [x EXCEPT !.q = [q EXCEPT !.pc = "signIn", !.password = password]]

walletLogin(route, q, store, clock, env) ==
  stepDerive(stepVerify(stepConsume(stepValidate(
    [version |-> route, q |-> q, nonces |-> store]), clock)), env)

NewReq(walletAddress, signature) ==
  [IdleReq EXCEPT !.pc = "parsed", !.walletAddress = walletAddress, !.signature = signature]

\* A request that answers (q.pc = "done") leaves its slot, one that awaits
\* the provider stays in it.
Answer(r, q) ==
  /\ reqs' = [reqs EXCEPT ![r] = IdleReq]
  /\ lastRun' = q

Await(r, q) ==
  /\ reqs' = [reqs EXCEPT ![r] = q]
  /\ lastRun' = q

CountReturned(h, q) ==
  IF q.nonce = Null THEN h ELSE [h EXCEPT ![q.nonce.uuid].returned = @ + 1]

\* the body of a request has been read: the handler runs up to its first await
Receive(r, walletAddress, signature) ==
  /\ reqs[r].pc = "idle"
  /\ \A p \in Slots : p < r => reqs[p].pc # "idle"
  /\ LET x == walletLogin(version, NewReq(walletAddress, signature), nonces, now, secret)
     IN /\ nonces' = x.nonces
        /\ issued' = CountReturned(issued, x.q)
        /\ burned' = IF x.q.nonce = Null THEN burned ELSE burned \cup {walletAddress.s}
        /\ IF x.q.pc = "done" THEN Answer(r, x.q) ELSE Await(r, x.q)
  /\ nonceResp' = NoResp
  /\ UNCHANGED <<now, secret, version, users>>

CountOk(h, q) == [h EXCEPT ![q.nonce.uuid].ok = @ + 1]

\* (mutant) a continuation that reads the registry again after its await
SignIn_consumesAgain(r, outcome) ==
  /\ reqs[r].pc = "signIn"
  /\ outcome \in SignInOutcomes
  /\ LET q == Did(reqs[r], "signIn")
         email == emailOf(q.walletAddress.s)
     IN /\ outcome = "session" => Has(users, email) /\ users[email] = q.password
        /\ outcome = "nouser" => ~Has(users, email)
        /\ nonces' = MapDelete(nonces, q.walletAddress.s)
        /\ CASE outcome = "session" ->
                  /\ Answer(r, Succeed(q, 200, Session(email), FALSE))
                  /\ issued' = CountOk(issued, q)
             [] outcome \in {"nouser", "rejected"} ->
                  /\ Await(r, [q EXCEPT !.pc = "signUp"])
                  /\ UNCHANGED issued
             [] outcome = "throw" ->
                  /\ Answer(r, catchAll(q))
                  /\ UNCHANGED issued
  /\ nonceResp' = NoResp
  /\ UNCHANGED <<now, secret, version, users, burned>>

\* step 4b: createClient and signInWithPassword
SignIn(r, outcome) ==
  /\ reqs[r].pc = "signIn"
  /\ outcome \in SignInOutcomes
  /\ LET q == Did(reqs[r], "signIn")
         email == emailOf(q.walletAddress.s)
     IN /\ outcome = "session" => Has(users, email) /\ users[email] = q.password
        /\ outcome = "nouser" => ~Has(users, email)
        /\ CASE outcome = "session" ->
                  /\ Answer(r, Succeed(q, 200, Session(email), FALSE))
                  /\ issued' = CountOk(issued, q)
             [] outcome \in {"nouser", "rejected"} ->
                  /\ Await(r, [q EXCEPT !.pc = "signUp"])
                  /\ UNCHANGED issued
             [] outcome = "throw" ->
                  /\ Answer(r, catchAll(q))
                  /\ UNCHANGED issued
  /\ nonceResp' = NoResp
  /\ UNCHANGED <<nonces, now, secret, version, users, burned>>

\* step 4c: signUp
SignUp(r, outcome) ==
  /\ reqs[r].pc = "signUp"
  /\ outcome \in SignUpOutcomes
  /\ LET q == Did(reqs[r], "signUp")
         email == emailOf(q.walletAddress.s)
     IN /\ outcome = "session" => ~Has(users, email)
        /\ CASE outcome = "session" ->
                  /\ users' = MapSet(users, email, q.password)
                  /\ Answer(r, Succeed(q, 201, Session(email), TRUE))
                  /\ issued' = CountOk(issued, q)
             [] outcome = "nosession" ->
                  /\ users' = IF Has(users, email) THEN users ELSE MapSet(users, email, q.password)
                  /\ Answer(r, Succeed(q, 201, Null, TRUE))
                  /\ issued' = CountOk(issued, q)
             [] outcome = "error" ->
                  /\ Answer(r, Respond(q, 401, MsgAuthFailed))
                  /\ UNCHANGED <<users, issued>>
             [] outcome = "throw" ->
                  /\ Answer(r, catchAll(q))
                  /\ UNCHANGED <<users, issued>>
  /\ nonceResp' = NoResp
  /\ UNCHANGED <<nonces, now, secret, version, burned>>

Next ==
  \/ \E d \in {1, NONCE_TTL_MS} : Tick(d)
  \/ \E w \in WalletInputs, t2 \in Later(now) : RequestNonce(w, t2)
  \/ \E r \in Slots, in \in LoginInputs : Receive(r, in[1], in[2])
  \/ \E r \in Slots, o \in SignInOutcomes : SignIn(r, o)
  \/ \E r \in Slots, o \in SignUpOutcomes : SignUp(r, o)

Spec == Init /\ [][Next]_vars

\* =================================================================== claims
Range(f) == {f[i] : i \in DOMAIN f}
StringKeys == {w.s : w \in {v \in WalletInputs : v.t = "string"}}

\* q was run by the synchronous part of the handler (not by a continuation)
SyncRun(q) == q.pc # "idle" /\ "signIn" \notin Range(q.steps)
\* the last step called consumeNonce(k)
RanConsume(k) ==
  /\ SyncRun(lastRun)
  /\ "consume" \in Range(lastRun.steps)
  /\ lastRun.walletAddress.s = k
InFlight(r) == reqs[r].pc \in {"signIn", "signUp"}
IssuesOf(k) == {i \in 1..Len(issued) : issued[i].key = k}
IsLatest(i) == \A j \in IssuesOf(issued[i].key) : j <= i
\* the signature is the one the key pair of q.walletAddress makes over q.nonce
SignedChallenge(q) ==
  /\ q.walletAddress.t = "string"
  /\ q.walletAddress.s \in KeyPairs
  /\ q.nonce # Null
  /\ q.signature.t = "string"
  /\ q.signature.hex = Sign(q.walletAddress.s, Utf8(q.nonce))
Success(q) == q.pc = "done" /\ q.status \in {200, 201}

\* C1: once consume(K) has returned a challenge, every later consume(K)
\* returns null until the next issue(K), whatever the signature check that
\* followed the first consume gave.
C1_OneTimeUse ==
  [][\A k \in burned : RanConsume(k)' => lastRun'.nonce = Null]_vars

C1_Witness ==
  \E k \in burned :
    /\ RanConsume(k)
    /\ lastRun.nonce = Null
    /\ \E i \in IssuesOf(k) : issued[i].returned = 1

\* C2: a value returned by consume(K) is the value of the most recent
\* issue(K); the store holds, per key, only the value of the most recent
\* issue, so an overwritten value is never returned.
C2_MostRecentIssue ==
  /\ \A k \in DOMAIN nonces :
       \E i \in IssuesOf(k) : IsLatest(i) /\ nonces[k].nonce = issued[i].nonce
  /\ \A k \in StringKeys :
       RanConsume(k) /\ lastRun.nonce # Null =>
         \E i \in IssuesOf(k) : IsLatest(i) /\ lastRun.nonce = issued[i].nonce

C2_Witness ==
  \E k \in StringKeys :
    /\ RanConsume(k)
    /\ \E i, j \in IssuesOf(k) : i < j /\ lastRun.nonce = issued[j].nonce

\* C3: of the requests for one key that run while one challenge is
\* outstanding, at most one obtains it: no challenge is returned twice, no two
\* requests in flight hold the same challenge, and a request that comes while
\* another holds the key's latest challenge answers 401 "Nonce not found"
\* without reaching the signature verification.
C3_AtMostOneObtains ==
  /\ \A i \in 1..Len(issued) : issued[i].returned <= 1
  /\ \A r1, r2 \in Slots :
       r1 # r2 /\ InFlight(r1) /\ InFlight(r2) => reqs[r1].nonce # reqs[r2].nonce
  /\ \A r \in Slots, i \in 1..Len(issued) :
       (/\ InFlight(r)
        /\ IsLatest(i)
        /\ reqs[r].nonce = issued[i].nonce
        /\ lastRun # reqs[r]
        /\ RanConsume(issued[i].key))
       => /\ lastRun.pc = "done"
          /\ lastRun.status = 401
          /\ lastRun.error = MsgNonce
          /\ "verify" \notin Range(lastRun.steps)

C3_Witness ==
  \E r \in Slots, i \in 1..Len(issued) :
    /\ InFlight(r)
    /\ IsLatest(i)
    /\ reqs[r].nonce = issued[i].nonce
    /\ RanConsume(issued[i].key)
    /\ lastRun.status = 401
    /\ lastRun.signature = reqs[r].signature

\* C4: a request reaches the identity provider, and answers 200 or 201, only
\* with a signature made by the key pair of its walletAddress over the very
\* challenge it consumed, a challenge issued for that walletAddress.
C4_SuccessNeedsSignature ==
  \A q \in {lastRun} \cup Range(reqs) :
    (Success(q) \/ q.pc \in {"signIn", "signUp"} \/ "signIn" \in Range(q.steps)) =>
      /\ SignedChallenge(q)
      /\ issued[q.nonce.uuid].nonce = q.nonce
      /\ issued[q.nonce.uuid].key = q.walletAddress.s

C4_Witness ==
  /\ Success(lastRun)
  /\ Len(issued) = 2
  /\ lastRun.nonce = issued[2].nonce

\* C5: a challenge leads to at most one success response; once a submit for K
\* has succeeded, the same payload sent again before a new issue(K) answers
\* 401 "Nonce not found or expired. Request a new nonce.".
C5_OneSuccessPerChallenge ==
  /\ \A i \in 1..Len(issued) : issued[i].ok <= 1
  /\ \A i \in 1..Len(issued) :
       (/\ issued[i].ok >= 1
        /\ IsLatest(i)
        /\ SyncRun(lastRun)
        /\ lastRun.walletAddress = Str(issued[i].key)
        /\ lastRun.signature = SignatureOf(issued[i].key, issued[i].nonce))
       => /\ lastRun.pc = "done"
          /\ lastRun.status = 401
          /\ lastRun.error = MsgNonce

C5_Witness ==
  \E i \in 1..Len(issued) :
    /\ issued[i].ok = 1
    /\ IsLatest(i)
    /\ SyncRun(lastRun)
    /\ lastRun.walletAddress = Str(issued[i].key)
    /\ lastRun.signature = SignatureOf(issued[i].key, issued[i].nonce)
    /\ lastRun.status = 401

\* C6: a request runs validation, nonce consumption, signature verification,
\* credential derivation and the provider calls in this order; a step that
\* fails answers with its own failure response and no later step runs.
StepOrder == <<"validate", "consume", "verify", "derive", "signIn", "signUp">>
Steps(n) == SubSeq(StepOrder, 1, n)
C6_InOrder(q) ==
  /\ \E n \in 1..Len(StepOrder) : q.steps = Steps(n)
  /\ validationError(version, q.walletAddress, q.signature) # "none" =>
       q.steps = Steps(1) /\ q.pc = "done" /\ q.status = 400
  /\ "consume" \in Range(q.steps) /\ q.nonce = Null =>
       q.steps = Steps(2) /\ q.pc = "done" /\ q.status = 401 /\ q.error = MsgNonce
  /\ "verify" \in Range(q.steps) /\ ~SignedChallenge(q) =>
       q.steps = Steps(3) /\ q.pc = "done" /\ q.status = 401 /\ q.error = MsgSignature
  /\ "derive" \in Range(q.steps) /\ Falsy(secret) =>
       q.steps = Steps(4) /\ q.pc = "done" /\ q.status = 500 /\ q.error = MsgInternal
  /\ q.pc = "done" /\ q.status = 200 => q.steps = Steps(5)
  /\ q.pc = "done" /\ q.status = 201 => q.steps = Steps(6)
  /\ q.pc = "signIn" => q.steps = Steps(4)
  /\ q.pc = "signUp" => q.steps = Steps(5)

C6_StepOrder ==
  \A q \in ({lastRun} \cup Range(reqs)) \ {IdleReq} : C6_InOrder(q)

C6_Witness ==
  /\ lastRun.pc = "done"
  /\ lastRun.steps = Steps(3)
  /\ lastRun.error = MsgSignature
  /\ \E r \in Slots : reqs[r].steps = Steps(5)

\* C7: a request whose walletAddress is missing, not a string or not 56
\* characters starting with 'G', or whose signature is missing or empty,
\* answers 400 and leaves the nonce store as it was.
C7_Malformed(walletAddress, signature) ==
  \/ walletAddress.t # "string"
  \/ Length(walletAddress) # ADDRESS_LENGTH
  \/ walletAddress.hex.n = 0 /\ SubSeq(walletAddress.s, 1, 1) # "G"
  \/ signature.t = "undefined"
  \/ signature = Str("")

C7_InvalidInputRejected ==
  SyncRun(lastRun) /\ C7_Malformed(lastRun.walletAddress, lastRun.signature) =>
    lastRun.pc = "done" /\ lastRun.status = 400

\* C7, the part both versions of the handler keep: a request answered 400, and
\* any request with such an input, leaves the nonce store as it was.
C7_RegistryUntouched ==
  [][(SyncRun(lastRun') /\
       (lastRun'.status = 400 \/ C7_Malformed(lastRun'.walletAddress, lastRun'.signature)))
     => nonces' = nonces]_vars

C7_Witness ==
  /\ SyncRun(lastRun)
  /\ lastRun.status = 400
  /\ nonces # NoEntry

\* C8: when a request has consumed a challenge and its signature does not
\* verify, it answers 401 "Signature verification failed..." and the store has
\* no entry for the key; any request for the key before the next issue(K)
\* answers 401 "Nonce not found...".
C8_NonceNotRestored ==
  [][\A k \in StringKeys : RanConsume(k)' =>
       /\ (lastRun'.nonce # Null /\ ~SignedChallenge(lastRun')) =>
            /\ lastRun'.pc = "done"
            /\ lastRun'.status = 401
            /\ lastRun'.error = MsgSignature
            /\ ~Has(nonces', k)
       /\ k \in burned =>
            /\ lastRun'.pc = "done"
            /\ lastRun'.status = 401
            /\ lastRun'.error = MsgNonce]_vars

C8_Witness ==
  \E i \in 1..Len(issued) :
    /\ RanConsume(issued[i].key)
    /\ issued[i].key \in burned
    /\ issued[i].returned = 1 /\ issued[i].ok = 0
    /\ IsLatest(i)
    /\ lastRun.error = MsgNonce
    /\ lastRun.signature = SignatureOf(issued[i].key, issued[i].nonce)
    /\ \A r \in Slots : ~InFlight(r)
    /\ ~Falsy(secret)

\* C9: consume(K) after the entry's expiresAt returns null as for a key
\* without an entry, and the request answers 401 "Nonce not found...", also
\* with a valid signature over the expired challenge.
C9_ExpiredIsNotFound ==
  [][\A k \in StringKeys :
       RanConsume(k)' /\ (~Has(nonces, k) \/ now > nonces[k].expiresAt) =>
         /\ lastRun'.nonce = Null
         /\ lastRun'.pc = "done"
         /\ lastRun'.status = 401
         /\ lastRun'.error = MsgNonce
         /\ lastRun'.steps = Steps(2)]_vars

C9_Witness ==
  \E i \in 1..Len(issued) :
    /\ RanConsume(issued[i].key)
    /\ IsLatest(i)
    /\ issued[i].returned = 0
    /\ ~Has(nonces, issued[i].key)
    /\ now > issued[i].nonce.ts + NONCE_TTL_MS
    /\ lastRun.signature = SignatureOf(issued[i].key, issued[i].nonce)
    /\ lastRun.error = MsgNonce

\* C10: an entry's expiresAt is the clock of the issue call that made it plus
\* NONCE_TTL_MS; a step leaves an entry as it is, deletes it, or (an issue)
\* replaces it by a whole new entry.
C10_ExpiresAtFixed ==
  [][\A k \in DOMAIN nonces' :
       \/ Has(nonces, k) /\ nonces'[k] = nonces[k]
       \/ /\ nonceResp'.status = 200
          /\ nonces'[k].nonce = nonceResp'.nonce
          /\ nonces'[k].expiresAt = now' + NONCE_TTL_MS]_vars

C10_Witness ==
  \E k \in DOMAIN nonces :
    /\ nonceResp.status = 200
    /\ nonces[k].nonce = nonceResp.nonce
    /\ nonces[k].nonce.ts < now
    /\ nonces[k].expiresAt = now + NONCE_TTL_MS

\* the identity the provider holds for q's wallet, if any
Known(q) == Has(users, emailOf(q.walletAddress.s))

\* C11: the handler calls signUp only when signInWithPassword failed because
\* the user does not exist; a sign-in rejected while the user exists is
\* answered with an error and signUp is not called.
C11_SignUpOnlyForUnknown ==
  [][\A r \in Slots :
       (reqs[r].pc = "signIn" /\ reqs'[r].pc = "signUp") => ~Known(reqs[r])]_vars

\* C12: every response with status 200 or 201 carries a session the provider
\* returned; no success status is sent when the provider returned no session.
C12_SuccessHasSession ==
  Success(lastRun) => lastRun.session # Null

\* C13: a response has status 201 and isNewUser true exactly when the request
\* made the provider create the identity, and status 200 and isNewUser false
\* exactly when signInWithPassword resolved an identity the provider already
\* held; so no key is answered 201 twice.
C13_CreatedIffProvisioned ==
  [][/\ lastRun'.status = 201 =>
          /\ lastRun'.isNewUser
          /\ ~Known(lastRun')
          /\ Has(users', emailOf(lastRun'.walletAddress.s))
     /\ lastRun'.status = 200 =>
          /\ ~lastRun'.isNewUser
          /\ Known(lastRun')
          /\ users' = users
     /\ users' # users => lastRun'.status = 201]_vars

Failure(q) == q.pc = "done" /\ q.status \notin {200, 201}
ValidationMessages ==
  {"walletAddress is required", "Invalid Stellar wallet address", MsgSignatureRequired}
\* the four failure responses of the endpoint's error table
FourShapes ==
  ({400} \X ValidationMessages)
    \cup {<<401, MsgNonce>>, <<401, MsgSignature>>, <<500, MsgInternal>>}

\* C15 (as stated): every failure response is 400 with a validation message,
\* 401 with the nonce message, 401 with the signature message or 500 with
\* "Internal server error".
C15_FourFailureShapes ==
  Failure(lastRun) => <<lastRun.status, lastRun.error>> \in FourShapes

\* C15 (amended): every failure response is one of those four or the fifth
\* one, 401 "Authentication failed. Please try again.", which is sent when
\* signUp returns an error.
C15_FiveFailureShapes ==
  /\ Failure(lastRun) =>
       <<lastRun.status, lastRun.error>> \in FourShapes \cup {<<401, MsgAuthFailed>>}
  /\ (Failure(lastRun) /\ lastRun.error = MsgAuthFailed) => lastRun.steps = Steps(6)
  /\ Success(lastRun) => lastRun.error = "none"
  /\ lastRun.pc = "done" => Failure(lastRun) \/ Success(lastRun)

C15_Witness ==
  /\ Failure(lastRun)
  /\ lastRun.status = 401
  /\ lastRun.error = MsgAuthFailed
  /\ SignedChallenge(lastRun)

\* createClient, signInWithPassword or signUp raises an exception in slot r
ProviderThrows(r) == SignIn(r, "throw") \/ SignUp(r, "throw")

C17_NoSecretIsInternalError ==
  Falsy(secret) =>
    /\ (SyncRun(lastRun) /\ SignedChallenge(lastRun)) =>
         /\ lastRun.pc = "done"
         /\ lastRun.status = 500
         /\ lastRun.error = MsgInternal
         /\ lastRun.steps = Steps(4)
    /\ \A r \in Slots : ~InFlight(r)
    /\ "signIn" \notin Range(lastRun.steps)
    /\ users = NoEntry

C17_Witness ==
  /\ secret = Str(Empty)
  /\ SignedChallenge(lastRun)
  /\ lastRun.status = 500
  /\ lastRun.steps = Steps(4)

\* the answer to a request whose consumeNonce call returned null
NotFound(walletAddress, signature) ==
  Respond(Did(Did(NewReq(walletAddress, signature), "validate"), "consume"), 401, MsgNonce)
NeverIssued(k) == IssuesOf(k) = {}
AlreadyConsumed(k) == k \in burned
Expired(k) == Has(nonces, k) /\ now > nonces[k].expiresAt

\* C18: consumeNonce returns null, and the request is answered with the same
\* status and the same message, when no nonce was ever issued for the key,
\* when the nonce was already consumed and when the nonce has expired; the
\* answer depends on the request alone.
C18_ThreeCasesOneAnswer ==
  [][\A k \in StringKeys :
       (RanConsume(k)' /\ (NeverIssued(k) \/ AlreadyConsumed(k) \/ Expired(k))) =>
         /\ lastRun'.nonce = Null
         /\ lastRun' = NotFound(lastRun'.walletAddress, lastRun'.signature)
         /\ ~Has(nonces', k)]_vars

C18_Witness ==
  /\ RanConsume(KeyA)
  /\ NeverIssued(KeyA)
  /\ issued # <<>>
  /\ lastRun.signature = SignatureOf(KeyA, issued[1].nonce)
  /\ lastRun = NotFound(Str(KeyA), lastRun.signature)

\* a string of 56 characters starting with 'G'
WellFormed(walletAddress) ==
  /\ walletAddress.t = "string"
  /\ Length(walletAddress) = ADDRESS_LENGTH
  /\ SubSeq(walletAddress.s, 1, 1) = "G"

\* C19: the nonce endpoint answers 400 and leaves the nonce store unchanged
\* when walletAddress is missing or not well-formed; for a well-formed one it
\* answers 200 with a nonce, and the store's entry for that key then holds
\* exactly the nonce returned (the other entries are as before).
C19_NonceEndpoint ==
  [][\A w \in WalletInputs, t2 \in Later(now) : RequestNonce(w, t2) =>
       IF WellFormed(w)
       THEN /\ nonceResp'.status = 200
            /\ nonceResp'.nonce # Null
            /\ Has(nonces', w.s)
            /\ nonces'[w.s].nonce = nonceResp'.nonce
            /\ \A k \in (DOMAIN nonces \cup DOMAIN nonces') \ {w.s} :
                 Has(nonces, k) /\ Has(nonces', k) /\ nonces'[k] = nonces[k]
       ELSE /\ nonceResp'.status = 400
            /\ nonceResp'.error \in
                 {"walletAddress is required", "Invalid Stellar wallet address"}
            /\ nonceResp'.nonce = Null
            /\ nonces' = nonces]_vars

C19_Witness ==
  /\ nonceResp.status = 400
  /\ nonceResp.error = "Invalid Stellar wallet address"
  /\ Has(nonces, KeyA) /\ Has(nonces, KeyBad)

\* the store holds an unexpired nonce for k and sig is k's signature over it
SignsStored(k, sig) ==
  /\ Has(nonces, k)
  /\ now <= nonces[k].expiresAt
  /\ sig = SignatureOf(k, nonces[k].nonce)
Passed(q) == "derive" \in Range(q.steps)

\* C20: a request carrying the key's signature over the nonce now stored for
\* the key, before its expiresAt, passes nonce consumption and signature
\* verification, whatever failed before; a request carrying a signature over
\* an earlier nonce (one already consumed or replaced) never does.
C20_FreshNonceRecovers ==
  [][/\ \A k \in KeyPairs :
          (RanConsume(k)' /\ SignsStored(k, lastRun'.signature)) =>
            /\ lastRun'.nonce = nonces[k].nonce
            /\ Passed(lastRun')
            /\ lastRun'.error \notin {MsgNonce, MsgSignature}
     /\ \A k \in StringKeys :
          (RanConsume(k)' /\ ~SignsStored(k, lastRun'.signature)) =>
            /\ ~Passed(lastRun')
            /\ lastRun'.status = 401
            /\ lastRun'.error \in {MsgNonce, MsgSignature}
     /\ \A i \in 1..Len(issued) :
          (/\ RanConsume(issued[i].key)'
           /\ lastRun'.signature = SignatureOf(issued[i].key, issued[i].nonce)
           /\ (issued[i].returned > 0 \/ ~IsLatest(i))) =>
            ~Passed(lastRun')]_vars

C20_Witness ==
  /\ Len(issued) = 2
  /\ issued[1].key = KeyA /\ issued[2].key = KeyA
  /\ issued[1].returned = 1 /\ issued[1].ok = 0
  /\ issued[2].returned = 1
  /\ reqs[1] = lastRun /\ reqs[2] = IdleReq
  /\ lastRun.pc = "signIn"
  /\ lastRun.nonce = issued[2].nonce
  /\ lastRun.signature = SignatureOf(KeyA, issued[2].nonce)
  /\ users = NoEntry

\* C21: the provider's e-mail is built from the lowercased wallet address,
\* the password from the wallet address as the caller sent it, the nonce
\* store is looked up with the address verbatim and a success response echoes
\* the address verbatim.
C21_Requests == ({lastRun} \cup Range(reqs)) \ {IdleReq}
C21_KeyCase ==
  /\ \A q \in C21_Requests :
       /\ q.password # Null =>
            q.password = [t |-> "hex", hmac |-> <<secret.s, q.walletAddress.s>>]
       /\ q.nonce # Null => issued[q.nonce.uuid].key = q.walletAddress.s
       /\ Success(q) =>
            /\ q.echo = q.walletAddress
            /\ q.session # Null =>
                 q.session.email = ToLowerCase(q.walletAddress.s) \o "@wallet.anonchat.local"
  /\ \A e \in DOMAIN users :
       \E k \in StringKeys :
         /\ e = ToLowerCase(k) \o "@wallet.anonchat.local"
         /\ e # k \o "@wallet.anonchat.local"
         /\ users[e] = [t |-> "hex", hmac |-> <<secret.s, k>>]

C21_Witness ==
  /\ lastRun.status = 201
  /\ lastRun.session # Null
  /\ lastRun.echo = Str(KeyA)
  /\ lastRun.nonce # Null
  /\ Has(users, ToLowerCase(KeyA) \o "@wallet.anonchat.local")
  /\ ~Has(users, KeyA \o "@wallet.anonchat.local")

\* the library would throw on these arguments: an invalid strkey, or signature
\* bytes that are not 64 long (a non-hex string decodes to none)
LibraryThrows(walletAddress, message, signature) ==
  \/ ~StrKeyValid(walletAddress)
  \/ HexDecode(signature).n # SIGNATURE_BYTES
SignatureInputs == {in[2] : in \in LoginInputs} \ {Undefined}

\* C22: verifyWalletSignature returns a boolean for every input, false when
\* the key is malformed, the signature is not hex or has the wrong length, or
\* the library rejects it; a request that reaches the verification with such
\* an input is answered 401 with the signature message, never 500.
C22_VerifyNeverThrows ==
  /\ \A k \in StringKeys, m \in KnownMessages, sig \in SignatureInputs :
       /\ verifyWalletSignature(k, m, sig) \in BOOLEAN
       /\ LibraryThrows(k, m, sig) => ~verifyWalletSignature(k, m, sig)
       /\ sig.hex # Sign(k, Utf8(m)) => ~verifyWalletSignature(k, m, sig)
  /\ (/\ SyncRun(lastRun)
      /\ "verify" \in Range(lastRun.steps)
      /\ \/ LibraryThrows(lastRun.walletAddress.s, lastRun.nonce, lastRun.signature)
         \/ ~SignedChallenge(lastRun)) =>
       /\ lastRun.pc = "done"
       /\ lastRun.status = 401
       /\ lastRun.error = MsgSignature

C22_Witness ==
  /\ SyncRun(lastRun)
  /\ lastRun.walletAddress = Str(KeyBad)
  /\ lastRun.signature = Str(NotHex)
  /\ lastRun.nonce # Null
  /\ lastRun.steps = Steps(3)
  /\ lastRun.status = 401

\* ------------------------------------------- random values of the nonce
\* crypto.randomUUID() is a random value: nothing in generateNonce keeps two
\* calls from drawing the same one. This specification of the nonce endpoint
\* draws it from a small set, so that equal draws happen.
Uuids == 1..MaxUuid

RequestNonceRandom(walletAddress, t2, uuid) ==
  /\ t2 \in Later(now)
  /\ uuid \in Uuids
  /\ LET e == validateWalletAddressWithMessage(walletAddress)
     IN IF e # "none"
        THEN /\ nonceResp' = [status |-> 400, error |-> e, nonce |-> Null]
             /\ t2 = now
             /\ uuid = 1
             /\ UNCHANGED <<nonces, now, issued, burned>>
        ELSE /\ Len(issued) < MaxIssue
             /\ LET g == generateNonce(nonces, walletAddress.s, now, t2, uuid)
                IN /\ nonces' = g.nonces
                   /\ nonceResp' = [status |-> 200, error |-> "none", nonce |-> g.ret]
                   /\ issued' = Append(issued,
                        [key |-> walletAddress.s, nonce |-> g.ret, at |-> now, uuid |-> uuid])
                   /\ burned' = burned \ {walletAddress.s}
             /\ now' = t2
  /\ lastRun' = IdleReq
  /\ UNCHANGED <<secret, version, users, reqs>>

NextRandom ==
  \/ \E d \in {1, NONCE_TTL_MS} : Tick(d)
  \/ \E w \in WalletInputs, t2 \in Later(now), u \in Uuids : RequestNonceRandom(w, t2, u)

SpecRandom == Init /\ [][NextRandom]_vars

IssuePairs == {p \in (1..Len(issued)) \X (1..Len(issued)) : p[1] < p[2]}

C24_BoundaryInclusive ==
  [][\A k \in StringKeys : (RanConsume(k)' /\ Has(nonces, k)) =>
       /\ now <= nonces[k].expiresAt => lastRun'.nonce = nonces[k].nonce
       /\ now = nonces[k].expiresAt => lastRun'.error # MsgNonce
       /\ now > nonces[k].expiresAt =>
            lastRun'.nonce = Null /\ lastRun'.error = MsgNonce]_vars

C24_Witness ==
  /\ RanConsume(KeyA)
  /\ Len(issued) = 1
  /\ lastRun.nonce = issued[1].nonce
  /\ lastRun.nonce.ts = 0
  /\ now = NONCE_TTL_MS
  /\ Passed(lastRun)

\* C25: the clock alone never changes the nonce store: an entry stays, also
\* after its expiresAt, until consumeNonce for its key deletes it or
\* generateNonce for its key overwrites it; consumeNonce deletes the entry
\* whenever there is one, also when it is expired and null is returned.
C25_NoSweep ==
  [][/\ \A d \in {1, NONCE_TTL_MS} : Tick(d) => nonces' = nonces
     /\ \A k \in DOMAIN nonces :
          /\ ~Has(nonces', k) => RanConsume(k)'
          /\ (Has(nonces', k) /\ nonces'[k] # nonces[k]) =>
               nonceResp'.status = 200 /\ nonces'[k].nonce = nonceResp'.nonce
     /\ \A k \in StringKeys : RanConsume(k)' => ~Has(nonces', k)]_vars

C25_Witness ==
  /\ RanConsume(KeyA)
  /\ Has(nonces, KeyBad)
  /\ now > nonces[KeyBad].expiresAt
  /\ lastRun.nonce = Null
  /\ \E i \in 1..Len(issued) :
       issued[i].key = KeyA /\ issued[i].returned = 0 /\ IsLatest(i)
  /\ ~Has(nonces, KeyA)

\* the entries of the keys other than k are the same before and after the step
OthersUnchanged(k) ==
  \A o \in (DOMAIN nonces \cup DOMAIN nonces') \ {k} :
    Has(nonces, o) /\ Has(nonces', o) /\ nonces'[o] = nonces[o]

\* C26: generateNonce(K) and consumeNonce(K) leave the entry of every other
\* key as it was; consumeNonce for a key without an entry returns null
\* whatever is stored for other keys; a nonce issued for K is returned only
\* to a request for K.
C26_KeysIndependent ==
  [][/\ \A k \in StringKeys : RanConsume(k)' =>
          /\ OthersUnchanged(k)
          /\ ~Has(nonces, k) => lastRun'.nonce = Null /\ nonces' = nonces
          /\ lastRun'.nonce # Null =>
               Has(nonces, k) /\ issued[lastRun'.nonce.uuid].key = k
     /\ \A w \in WalletInputs, t2 \in Later(now) :
          (RequestNonce(w, t2) /\ WellFormed(w)) => OthersUnchanged(w.s)]_vars

C26_Witness ==
  /\ RanConsume(KeyA)
  /\ ~Has(nonces, KeyA)
  /\ Has(nonces, KeyBad)
  /\ now <= nonces[KeyBad].expiresAt
  /\ lastRun.nonce = Null
  /\ lastRun.error = MsgNonce
  /\ lastRun.signature = SignatureOf(KeyA, nonces[KeyBad].nonce)

\* ------------------------------------------------- unreadable request bodies
\* `await request.json()` is inside the try block of both handlers: a body
\* that is not JSON makes it throw before any field is read.
MsgNonceFailed == "Failed to generate nonce"

\* POST /api/auth/wallet-login with an unreadable body
ReceiveUnreadable ==
  /\ \E r \in Slots : reqs[r].pc = "idle"
  /\ lastRun' = catchAll([IdleReq EXCEPT !.pc = "reading"])
  /\ nonceResp' = NoResp
  /\ UNCHANGED <<nonces, now, secret, version, users, reqs, issued, burned>>

\* POST /api/auth/nonce with an unreadable body
RequestNonceUnreadable ==
  /\ nonceResp' = [status |-> 500, error |-> MsgNonceFailed, nonce |-> Null]
  /\ lastRun' = IdleReq
  /\ UNCHANGED <<nonces, now, secret, version, users, reqs, issued, burned>>

\* Whether a request is answered does not depend on the clock: here the clock
\* stands still, so every nonce is consumed unexpired.
NextAll ==
  \/ \E w \in WalletInputs : RequestNonce(w, now)
  \/ \E r \in Slots, in \in LoginInputs : Receive(r, in[1], in[2])
  \/ \E r \in Slots, o \in SignInOutcomes : SignIn(r, o)
  \/ \E r \in Slots, o \in SignUpOutcomes : SignUp(r, o)
  \/ ReceiveUnreadable
  \/ RequestNonceUnreadable

\* every call of the identity provider eventually returns or throws
ProviderCall(r) ==
  \/ \E o \in SignInOutcomes : SignIn(r, o)
  \/ \E o \in SignUpOutcomes : SignUp(r, o)
ProviderAnswers == \A r \in Slots : WF_vars(ProviderCall(r))

FairSpec == Init /\ [][NextAll]_vars /\ ProviderAnswers

\* C27: every wallet-login and nonce request ends with one response, given
\* that every provider call returns or throws: a request awaiting the provider
\* is answered eventually, a slot is left only with a response, and an
\* exception (unreadable body, missing secret, provider call) is answered 500
\* by the handler's catch block.
C27_AlwaysAnswered ==
  /\ \A r \in Slots : InFlight(r) ~> (reqs[r].pc = "idle")
  /\ [][/\ \A r \in Slots :
             /\ (reqs[r].pc = "idle" /\ reqs'[r].pc # "idle") =>
                  lastRun' = reqs'[r] /\ InFlight(r)'
             /\ (reqs[r].pc # "idle" /\ reqs'[r].pc = "idle") =>
                  lastRun'.pc = "done" /\ lastRun'.status \in {200, 201, 401, 500}
             /\ ProviderThrows(r) => lastRun' = catchAll(lastRun') /\ lastRun'.status = 500
        /\ lastRun' # IdleReq => lastRun'.pc \in {"done", "signIn", "signUp"}
        /\ ReceiveUnreadable =>
             lastRun'.pc = "done" /\ lastRun'.status = 500 /\ lastRun'.error = MsgInternal
        /\ RequestNonceUnreadable => nonceResp'.status = 500
        /\ nonceResp' # NoResp => nonceResp'.status \in {200, 400, 500}]_vars

C27_Witness ==
  /\ lastRun.pc = "done"
  /\ lastRun.steps = <<>>
  /\ lastRun.status = 500
  /\ lastRun.error = MsgInternal
  /\ \E r \in Slots : InFlight(r)

\* C28 (as stated): the timestamp in the text of every stored nonce equals
\* the entry's expiresAt minus NONCE_TTL_MS.
C28_TimestampIsExpiryBase ==
  \A k \in DOMAIN nonces : nonces[k].nonce.ts = nonces[k].expiresAt - NONCE_TTL_MS

\* C28 (amended): the timestamp in the text is the first clock reading of
\* generateNonce and expiresAt minus NONCE_TTL_MS is the second; the timestamp
\* is never the greater one and the two are equal exactly when the clock did
\* not advance between the readings.
C28_TimestampAtMostExpiryBase ==
  [][/\ \A w \in WalletInputs, t2 \in Later(now) :
          (RequestNonce(w, t2) /\ WellFormed(w)) =>
            /\ nonces'[w.s].nonce.ts = now
            /\ nonces'[w.s].expiresAt - NONCE_TTL_MS = t2
            /\ nonceResp'.nonce.ts = now
     /\ \A k \in DOMAIN nonces' :
          nonces'[k].nonce.ts <= nonces'[k].expiresAt - NONCE_TTL_MS]_vars

C28_Witness ==
  \E k \in DOMAIN nonces :
    /\ nonces[k].nonce.ts < nonces[k].expiresAt - NONCE_TTL_MS
    /\ nonceResp.nonce = nonces[k].nonce
    /\ now = nonces[k].expiresAt - NONCE_TTL_MS

\* C29: generateNonce for a key whose request is awaiting the provider leaves
\* that request and the user table as they are, and the awaited continuation
\* leaves the registry as it is: the request answers from the nonce and the
\* password it captured before the await, a success is counted for the nonce
\* it consumed, and every entry that could be consumed before the
\* continuation can still be consumed, with the same nonce, after it.
\* (Only its continuation, SignIn or SignUp, changes the slot of a request
\* that is awaiting the provider.)
C29_IssueWhileInFlight ==
  [][/\ (nonceResp' # NoResp /\ \E w \in WalletInputs : RequestNonce(w, now')) =>
          /\ reqs' = reqs
          /\ users' = users
     /\ \A r \in Slots :
          (InFlight(r) /\ reqs'[r] # reqs[r]) =>
            /\ nonces' = nonces
            /\ lastRun'.nonce = reqs[r].nonce
            /\ lastRun'.password = reqs[r].password
            /\ lastRun'.walletAddress = reqs[r].walletAddress
            /\ \A i \in 1..Len(issued) :
                 issued'[i].ok = issued[i].ok +
                   (IF Success(lastRun') /\ i = reqs[r].nonce.uuid THEN 1 ELSE 0)
            /\ \A k \in DOMAIN nonces :
                 now <= nonces[k].expiresAt =>
                   consumeNonce(nonces', k, now').ret = nonces[k].nonce]_vars

\* a request that consumed the first nonce of its key is awaiting the provider
\* and the step just taken issued the second nonce of that key.
C29_Witness ==
  \E r \in Slots, i, j \in 1..Len(issued) :
    /\ InFlight(r)
    /\ i < j
    /\ issued[i].key = reqs[r].walletAddress.s
    /\ issued[j].key = issued[i].key
    /\ reqs[r].nonce = issued[i].nonce
    /\ nonceResp # NoResp
    /\ nonceResp.nonce = issued[j].nonce
    /\ Has(nonces, issued[j].key)
    /\ nonces[issued[j].key].nonce = issued[j].nonce
    /\ issued[j].returned = 0

\* the same body posted again
Retry(q, store, clock) == walletLogin(version, NewReq(q.walletAddress, q.signature), store, clock, secret)

\* C30: a wallet-login request that answers with a status other than 400 has
\* run consumeNonce; when it answers, the registry holds no entry with the
\* nonce that was stored for its wallet address at that call (an entry found
\* there comes from a later generateNonce), and if there is no entry at all
\* the same body posted again is answered 401 with the nonce message and
\* leaves the registry as it is.
C30_ConsumedIsGone ==
  [][(lastRun'.pc = "done" /\ lastRun'.status # 400) =>
       LET q == lastRun'
           k == q.walletAddress.s
       IN /\ "consume" \in Range(q.steps)
          /\ SyncRun(q) => ~Has(nonces', k)
          /\ Has(nonces', k) =>
               /\ q.nonce # Null
               /\ nonces'[k].nonce # q.nonce
               /\ Has(nonces, k) => nonces[k].nonce # q.nonce
          /\ ~Has(nonces', k) =>
               LET x == Retry(q, nonces', now')
               IN /\ x.q.pc = "done"
                  /\ x.q.status = 401
                  /\ x.q.error = MsgNonce
                  /\ x.nonces = nonces']_vars

\* a request that consumed the stored nonce has been answered with a status
\* other than 400, the registry has no entry for its key, and the same body
\* posted again would get the nonce message.
C30_Witness ==
  \E i \in 1..Len(issued) :
    /\ lastRun.pc = "done"
    /\ lastRun.status \in {200, 201, 401, 500}
    /\ lastRun.nonce = issued[i].nonce
    /\ lastRun.walletAddress = Str(issued[i].key)
    /\ issued[i].returned = 1
    /\ ~Has(nonces, issued[i].key)
    /\ Retry(lastRun, nonces, now).q.error = MsgNonce
====
